---- MODULE Spec2Model ----
(***************************************************************************)
(* Bracket propagation and scoring engine of bracket-iq.                   *)
(*                                                                         *)
(* State: the canonical Game rows, the per-bracket BracketGame overlay,    *)
(* the Prediction rows, the set of created brackets, the response of the   *)
(* last handler, the number of requests served, the Team and Tournament    *)
(* rows, the handlers in flight with the objects they hold in memory, and  *)
(* the draws of the random module; for the command line simulation, the    *)
(* teams still in the tournament and the rounds recorded so far.           *)
(* Operations: the admin result entry (set_game_winner,                    *)
(* GameAdmin.save_model), the user views (create_bracket,                  *)
(* create_prediction, update_prediction, fill_bracket), the admin bracket  *)
(* generation, the seed_tournament_2025 command and simulate_tournament.   *)
(***************************************************************************)
EXTENDS Integers, FiniteSets, Sequences, TLC

VARIABLES games, bracket_games, predictions, brackets, response, requests,
          teams, tournaments, pc, random,
          current_teams, rounds

vars == <<games, bracket_games, predictions, brackets, response, requests,
          teams, tournaments, pc, random,
          current_teams, rounds>>

(***************************************************************************)
(* Bounds of the model.                                                    *)
(***************************************************************************)
NumBrackets == 1
MaxRequests == 4

None == 0
Teams == 1..4
Brackets == 1..NumBrackets

(***************************************************************************)
(* models.py: Round and Round.get_points                                   *)
(***************************************************************************)
FIRST_FOUR == 0
ROUND_OF_64 == 1
ROUND_OF_32 == 2
SWEET_16 == 3
ELITE_8 == 4
FINAL_FOUR == 5
CHAMPIONSHIP == 6

Rounds == FIRST_FOUR..CHAMPIONSHIP

points_map ==
    [r \in Rounds |->
        CASE r = FIRST_FOUR -> 0
          [] r = ROUND_OF_64 -> 1
          [] r = ROUND_OF_32 -> 2
          [] r = SWEET_16 -> 4
          [] r = ELITE_8 -> 8
          [] r = FINAL_FOUR -> 16
          [] r = CHAMPIONSHIP -> 32]

\* The points taken to be the round's number.
get_points_round_number(round_value) ==
    IF round_value \in DOMAIN points_map THEN round_value ELSE 0

\* A default of 1 point for a round that is looked up by the wrong key, with
\* the First Four entry lost.
get_points_first_four_scored(round_value) ==
    IF round_value \in DOMAIN points_map /\ round_value # FIRST_FOUR
    THEN points_map[round_value] ELSE 1

get_points(round_value) ==
    IF round_value \in DOMAIN points_map THEN points_map[round_value] ELSE 0

(***************************************************************************)
(* Rows.  A Game row; a BracketGame row (exists = FALSE: no row for that   *)
(* (bracket, game)); a Prediction row (predicted_winner = None: no row).   *)
(***************************************************************************)
Game(round, game_number, next_game, team1, seed1, team2, seed2) ==
    [round |-> round, game_number |-> game_number, next_game |-> next_game,
     team1 |-> team1, seed1 |-> seed1, team2 |-> team2, seed2 |-> seed2,
     winner |-> None]

NoBracketGame ==
    [exists |-> FALSE, team1 |-> None, team2 |-> None,
     team1_seed |-> None, team2_seed |-> None]

BracketGame(team1, team2, team1_seed, team2_seed) ==
    [exists |-> TRUE, team1 |-> team1, team2 |-> team2,
     team1_seed |-> team1_seed, team2_seed |-> team2_seed]

NoPrediction ==
    [predicted_winner |-> None, is_correct |-> FALSE, points_earned |-> 0]

Prediction(predicted_winner) ==
    [predicted_winner |-> predicted_winner, is_correct |-> FALSE,
     points_earned |-> 0]

GameIds == DOMAIN games

(***************************************************************************)
(* Tournaments the model starts from.                                      *)
(*   SiblingTree: two Round-of-64 games feeding one Round-of-32 game, as   *)
(*     the seeding command builds every later round.                       *)
(*   PlayIn: a First Four game that is the only feeder of a Round-of-64    *)
(*     game whose other slot is seeded, next to a game whose successor     *)
(*     starts empty with a single feeder (the test fixtures).              *)
(***************************************************************************)
SiblingTree ==
    <<Game(ROUND_OF_64, 1, 3, 1, 1, 2, 16),
      Game(ROUND_OF_64, 2, 3, 3, 8, 4, 9),
      Game(ROUND_OF_32, 3, None, None, None, None, None)>>

PlayIn ==
    <<Game(FIRST_FOUR, 1, 2, 1, 16, 2, 16),
      Game(ROUND_OF_64, 2, 3, 3, 1, None, 16),
      Game(ROUND_OF_32, 3, None, None, None, None, None)>>

Tournaments == {SiblingTree, PlayIn}

\* The scoring fixture: one game per round, team 1 (seed 1) against team 2
\* (seed 2), no successors.
OneGamePerRound ==
    [g \in 1..7 |-> Game(g - 1, 1, None, 1, 1, 2, 2)]

(***************************************************************************)
(* models.py: Game.save                                                    *)
(***************************************************************************)
\* is_correct stored without points_earned.
Rescore_without_points(preds, g, round, winner) ==
    [b \in DOMAIN preds |->
        [h \in DOMAIN preds[b] |->
            IF h = g /\ preds[b][h].predicted_winner # None
            THEN [preds[b][h] EXCEPT
                    !.is_correct = (preds[b][h].predicted_winner = winner)]
            ELSE preds[b][h]]]

Rescore(preds, g, round, winner) ==
    [b \in DOMAIN preds |->
        [h \in DOMAIN preds[b] |->
            IF h = g /\ preds[b][h].predicted_winner # None
            THEN LET correct == preds[b][h].predicted_winner = winner
                 IN  [preds[b][h] EXCEPT
                        !.is_correct = correct,
                        !.points_earned =
                            IF correct THEN get_points(round) ELSE 0]
            ELSE preds[b][h]]]

\* Game.save of row `obj` for game g: the row is stored, and the game's
\* predictions are re-evaluated when the winner changed to a team.
GameSave(gs, preds, g, obj) ==
    LET winner_changed == gs[g].winner # obj.winner
    IN  [games |-> [gs EXCEPT ![g] = obj],
         predictions |->
            IF winner_changed /\ obj.winner # None
            THEN Rescore(preds, g, obj.round, obj.winner)
            ELSE preds]

(***************************************************************************)
(* models.py: Prediction.calculate_points, Bracket.score                   *)
(***************************************************************************)
\* calculate_points without its is_correct test.
calculate_points_unconditional(gs, g, p) ==
    get_points(gs[g].round)

calculate_points(gs, g, p) ==
    IF ~p.is_correct THEN 0 ELSE get_points(gs[g].round)

RECURSIVE SumPoints(_, _)
SumPoints(row, gset) ==
    IF gset = {} THEN 0
    ELSE LET g == CHOOSE x \in gset : TRUE
         IN  row[g].points_earned + SumPoints(row, gset \ {g})

score(b) ==
    SumPoints(predictions[b],
              {g \in GameIds : predictions[b][g].predicted_winner # None})

RECURSIVE SumRoundPoints(_, _)
SumRoundPoints(gs, gset) ==
    IF gset = {} THEN 0
    ELSE LET g == CHOOSE x \in gset : TRUE
         IN  get_points(gs[g].round) + SumRoundPoints(gs, gset \ {g})

\* The round's points of every predicted game, played or not.
remaining_points_all_games(b) ==
    SumRoundPoints(games,
                   {g \in GameIds : predictions[b][g].predicted_winner # None})

remaining_points(b) ==
    SumRoundPoints(games,
                   {g \in GameIds : /\ predictions[b][g].predicted_winner # None
                                     /\ games[g].winner = None})

max_possible_score(b) == score(b) + remaining_points(b)

(***************************************************************************)
(* admin.py: GameAdmin._update_next_game, _update_predictions              *)
(***************************************************************************)
\* The second slot whatever the successor holds.
AdminSlot_second(next) == 2

\* The slot of the successor that receives the winner: team1 when it is
\* empty, team2 otherwise.
AdminSlot(next) == IF next.team1 = None THEN 1 ELSE 2

\* The winner written into both slots of the successor.
update_next_game_both_slots(gs, g, winner) ==
    LET n == gs[g].next_game
    IN  IF n = None THEN gs
        ELSE [gs EXCEPT ![n].team1 = winner, ![n].team2 = winner]

update_next_game(gs, g, winner) ==
    LET game == gs[g]
        n == game.next_game
    IN  IF n = None THEN gs
        ELSE LET seed == IF winner = game.team1 THEN game.seed1
                         ELSE game.seed2
             IN  IF AdminSlot(gs[n]) = 1
                 THEN [gs EXCEPT ![n].team1 = winner, ![n].seed1 = seed]
                 ELSE [gs EXCEPT ![n].team2 = winner, ![n].seed2 = seed]

update_predictions(gs, preds, g) ==
    IF gs[g].winner = None THEN preds
    ELSE [b \in DOMAIN preds |->
            [h \in DOMAIN preds[b] |->
                IF h = g /\ preds[b][h].predicted_winner # None
                THEN LET correct ==
                            preds[b][h].predicted_winner = gs[g].winner
                         p == [preds[b][h] EXCEPT !.is_correct = correct]
                     IN  [p EXCEPT !.points_earned =
                                        calculate_points(gs, g, p)]
                ELSE preds[b][h]]]

(***************************************************************************)
(* admin.py: GameAdmin.set_game_winner, the submission of one game's       *)
(* winner.  The handler accepts any game id and any team id.               *)
(***************************************************************************)
SetGameWinnerResult(gs, preds, g, winner) ==
    LET gs1 == update_next_game(gs, g, winner)
        saved == GameSave(gs1, preds, g, [gs1[g] EXCEPT !.winner = winner])
    IN  [games |-> saved.games,
         predictions |-> update_predictions(saved.games,
                                            saved.predictions, g)]

set_game_winner(g, winner) ==
    LET r == SetGameWinnerResult(games, predictions, g, winner)
    IN  /\ games' = r.games
        /\ predictions' = r.predictions
        /\ response' = "Set winner"
        /\ UNCHANGED <<bracket_games, brackets>>

(***************************************************************************)
(* admin.py: GameForm and GameAdmin.save_model, the change form of one     *)
(* game submitted with a new value of its winner field.  The form offers   *)
(* the game's two teams once both are set, and a blank winner always; the  *)
(* other fields are submitted as stored.                                   *)
(***************************************************************************)
FormWinnerChoices(game) ==
    IF game.team1 # None /\ game.team2 # None
    THEN {None, game.team1, game.team2}
    ELSE {None}

\* Game.clean, as run by the form's validation.
GameClean(obj) ==
    obj.winner = None \/ obj.winner \in {obj.team1, obj.team2}

SaveModelResult(gs, preds, g, winner) ==
    LET obj == [gs[g] EXCEPT !.winner = winner]
        changed == gs[g].winner # winner
        saved == GameSave(gs, preds, g, obj)
        gs1 == IF changed /\ obj.next_game # None
               THEN update_next_game(saved.games, g, obj.winner)
               ELSE saved.games
    IN  [games |-> gs1,
         predictions |->
            IF changed /\ obj.winner # None
            THEN update_predictions(gs1, saved.predictions, g)
            ELSE saved.predictions]

save_model(g, winner) ==
    /\ winner \in FormWinnerChoices(games[g])
    /\ GameClean([games[g] EXCEPT !.winner = winner])
    /\ LET r == SaveModelResult(games, predictions, g, winner)
       IN  /\ games' = r.games
           /\ predictions' = r.predictions
    /\ response' = "Game saved"
    /\ UNCHANGED <<bracket_games, brackets>>

(***************************************************************************)
(* views.py: create_bracket                                                *)
(***************************************************************************)
create_bracket(b) ==
    /\ b \notin brackets
    /\ brackets' = brackets \cup {b}
    /\ bracket_games' =
         [bracket_games EXCEPT ![b] =
            [g \in GameIds |->
                BracketGame(games[g].team1, games[g].team2,
                            games[g].seed1, games[g].seed2)]]
    /\ response' = "Bracket created successfully"
    /\ UNCHANGED <<games, predictions>>

(***************************************************************************)
(* views.py: create_prediction and update_prediction                       *)
(***************************************************************************)
\* Game.objects.filter(next_game=next_game).exclude(id=game.id).first(),
\* under Game.Meta.ordering (round, game_number); None when there is none.
Before(gs, x, y) ==
    \/ gs[x].round < gs[y].round
    \/ gs[x].round = gs[y].round /\ gs[x].game_number < gs[y].game_number
    \/ gs[x].round = gs[y].round /\ gs[x].game_number = gs[y].game_number
       /\ x <= y

OtherGame(gs, g) ==
    LET others == {h \in DOMAIN gs : h # g /\ gs[h].next_game = gs[g].next_game}
    IN  IF others = {} THEN None
        ELSE CHOOSE h \in others : \A k \in others : Before(gs, h, k)

\* The validity check left out.
ValidChoice_any(bracket_game, winner) ==
    TRUE

\* "Verify this is a valid choice"
ValidChoice(bracket_game, winner) ==
    winner \in {bracket_game.team1, bracket_game.team2}

\* The slot chosen as the admin does: the first empty one.
OverlaySlot_empty_first(gs, g, next_bracket_game) ==
    IF next_bracket_game.team1 = None THEN 1 ELSE 2

\* The slot of the successor's overlay that receives the predicted winner.
OverlaySlot(gs, g, next_bracket_game) ==
    LET other_game == OtherGame(gs, g)
    IN  IF other_game # None
        THEN IF gs[g].game_number < gs[other_game].game_number THEN 1 ELSE 2
        ELSE IF next_bracket_game.team1 = None THEN 1 ELSE 2

\* The overlay of bracket b after the winner of game g is written into the
\* successor's BracketGame (get_or_create: a missing row starts empty).
AdvanceOverlay(gs, bgs, b, g, winner) ==
    LET n == gs[g].next_game
        bracket_game == bgs[b][g]
    IN  IF n = None THEN bgs
        ELSE LET next_bracket_game == [bgs[b][n] EXCEPT !.exists = TRUE]
                 seed == IF winner = bracket_game.team1
                         THEN bracket_game.team1_seed
                         ELSE bracket_game.team2_seed
             IN  IF OverlaySlot(gs, g, next_bracket_game) = 1
                 THEN [bgs EXCEPT ![b][n] =
                        [next_bracket_game EXCEPT !.team1 = winner,
                                                  !.team1_seed = seed]]
                 ELSE [bgs EXCEPT ![b][n] =
                        [next_bracket_game EXCEPT !.team2 = winner,
                                                  !.team2_seed = seed]]

\* Prediction.objects.update_or_create(..., defaults={predicted_winner})
UpdateOrCreate(preds, b, g, winner) ==
    [preds EXCEPT ![b][g].predicted_winner = winner]

create_prediction(b, g, winner) ==
    /\ b \in brackets
    /\ bracket_games[b][g].exists
    /\ IF ~ValidChoice(bracket_games[b][g], winner)
       THEN /\ response' = "Invalid winner selection"
            /\ UNCHANGED <<games, bracket_games, predictions, brackets>>
       ELSE /\ predictions' = UpdateOrCreate(predictions, b, g, winner)
            /\ bracket_games' =
                    AdvanceOverlay(games, bracket_games, b, g, winner)
            /\ response' = "Prediction created successfully"
            /\ UNCHANGED <<games, brackets>>

\* The prediction row (b, pg) is addressed by the URL, the game g and the
\* winner by the form.
update_prediction(b, pg, g, winner) ==
    /\ b \in brackets
    /\ predictions[b][pg].predicted_winner # None
    /\ bracket_games[b][g].exists
    /\ IF ~ValidChoice(bracket_games[b][g], winner)
       THEN /\ response' = "Invalid winner selection"
            /\ UNCHANGED <<games, bracket_games, predictions, brackets>>
       ELSE /\ predictions' =
                    [predictions EXCEPT ![b][pg].predicted_winner = winner]
            /\ bracket_games' =
                    AdvanceOverlay(games, bracket_games, b, g, winner)
            /\ response' = "Prediction updated"
            /\ UNCHANGED <<games, brackets>>

(***************************************************************************)
(* views.py: fill_bracket (POST)                                           *)
(***************************************************************************)
fill_bracket(b, g, winner_id) ==
    /\ b \in brackets
    /\ predictions' = UpdateOrCreate(predictions, b, g, winner_id)
    /\ LET n == games[g].next_game
       IN  games' =
             IF n = None THEN games
             ELSE IF games[g].team1 = winner_id
                  THEN [games EXCEPT ![n].team1 = winner_id,
                                     ![n].seed1 = games[g].seed1]
                  ELSE [games EXCEPT ![n].team2 = winner_id,
                                     ![n].seed2 = games[g].seed2]
    /\ response' = "Bracket filled"
    /\ UNCHANGED <<bracket_games, brackets>>

(***************************************************************************)
(* Specification                                                           *)
(***************************************************************************)
InitRows(tournament) ==
    /\ games = tournament
    /\ bracket_games =
         [b \in Brackets |-> [g \in DOMAIN tournament |-> NoBracketGame]]
    /\ predictions =
         [b \in Brackets |-> [g \in DOMAIN tournament |-> NoPrediction]]
    /\ brackets = {}
    /\ response = ""
    /\ requests = 0
    /\ teams = Teams
    /\ tournaments = {1}
    /\ pc = <<>>
    /\ random = <<>>
    /\ current_teams = <<>>
    /\ rounds = <<>>

Init == \E tournament \in Tournaments : InitRows(tournament)

\* One more request is served, up to the bound of the model; it runs to its
\* end, and no Team or Tournament row is written by these handlers.
Serve ==
    /\ requests < MaxRequests
    /\ requests' = requests + 1
    /\ UNCHANGED <<teams, tournaments, pc, random,
                   current_teams, rounds>>

Next ==
    \/ \E g \in GameIds, w \in Teams : Serve /\ set_game_winner(g, w)
    \/ \E g \in GameIds, w \in Teams \cup {None} : Serve /\ save_model(g, w)
    \/ \E b \in Brackets : Serve /\ create_bracket(b)
    \/ \E b \in Brackets, g \in GameIds, w \in Teams :
            Serve /\ create_prediction(b, g, w)
    \/ \E b \in Brackets, pg \in GameIds, g \in GameIds, w \in Teams :
            Serve /\ update_prediction(b, pg, g, w)
    \/ \E b \in Brackets, g \in GameIds, w \in Teams :
            Serve /\ fill_bracket(b, g, w)

Spec == Init /\ [][Next]_vars

(***************************************************************************)
(* The scoring scenario of tests/test_scoring.py on the model layer: in a  *)
(* bracket over one game per round, Prediction rows are created for games  *)
(* not yet played (Prediction.objects.create) and the winners are stored   *)
(* in round order (game.winner = team; game.save()).                       *)
(***************************************************************************)
prediction_create(b, g, winner) ==
    /\ b \in brackets
    /\ predictions[b][g].predicted_winner = None
    /\ games[g].winner = None
    /\ predictions' = [predictions EXCEPT ![b][g] = Prediction(winner)]
    /\ UNCHANGED <<games, bracket_games, brackets, response, requests,
                   teams, tournaments, pc, random,
                   current_teams, rounds>>

game_save_winner(g, winner) ==
    /\ games[g].winner = None
    /\ \A h \in GameIds : games[h].round < games[g].round
                            => games[h].winner # None
    /\ LET saved == GameSave(games, predictions, g,
                             [games[g] EXCEPT !.winner = winner])
       IN  /\ games' = saved.games
           /\ predictions' = saved.predictions
    /\ UNCHANGED <<bracket_games, brackets, response, requests,
                   teams, tournaments, pc, random,
                   current_teams, rounds>>

InitScoring ==
    /\ games = OneGamePerRound
    /\ bracket_games =
         [b \in Brackets |-> [g \in DOMAIN OneGamePerRound |-> NoBracketGame]]
    /\ predictions =
         [b \in Brackets |-> [g \in DOMAIN OneGamePerRound |-> NoPrediction]]
    /\ brackets = {1}
    /\ response = ""
    /\ requests = 0
    /\ teams = Teams
    /\ tournaments = {1}
    /\ pc = <<>>
    /\ random = <<>>
    /\ current_teams = <<>>
    /\ rounds = <<>>

NextScoring ==
    \/ \E b \in Brackets, g \in GameIds :
            \E w \in {games[g].team1, games[g].team2} :
                prediction_create(b, g, w)
    \/ \E g \in GameIds :
            \E w \in {games[g].team1, games[g].team2} :
                game_save_winner(g, w)

SpecScoring == InitScoring /\ [][NextScoring]_vars

(***************************************************************************)
(* admin.py: bracket generation (generate_brackets_view, _create_bracket,  *)
(* _generate_predictions).  random[g] is what the random module returns    *)
(* when game g is predicted: TRUE for random.choice taking the first team  *)
(* and for random.random() < 0.8.                                          *)
(***************************************************************************)
BracketStrategy ==
    {"RANDOM", "HIGHER_SEED", "HIGHER_SEED_WITH_UPSETS",
     "HISTORICAL_ANALYSIS", "STATISTICAL_MATCHUP", "COMPOSITE_AI"}

requires_api_data(strategy) ==
    strategy \in {"HISTORICAL_ANALYSIS", "STATISTICAL_MATCHUP", "COMPOSITE_AI"}

\* The comparison taken as "not greater": team1 on equal seeds.
lower_seed_or_team1(bracket_game) ==
    IF bracket_game.team1_seed <= bracket_game.team2_seed
    THEN bracket_game.team1 ELSE bracket_game.team2

\* "if bracket_game.team1_seed < bracket_game.team2_seed: team1, else: team2"
lower_seed(bracket_game) ==
    IF bracket_game.team1_seed < bracket_game.team2_seed
    THEN bracket_game.team1 ELSE bracket_game.team2

strategy_winner(strategy, bracket_game, draw) ==
    IF strategy = "RANDOM"
    THEN IF draw THEN bracket_game.team1 ELSE bracket_game.team2
    ELSE IF strategy = "HIGHER_SEED"
    THEN lower_seed(bracket_game)
    ELSE IF draw
         THEN lower_seed(bracket_game)
         ELSE IF bracket_game.team1_seed < bracket_game.team2_seed
              THEN bracket_game.team2 ELSE bracket_game.team1

\* The existence check left out: a game is predicted whenever it is reached.
already_predicted_never(st, g) ==
    FALSE

\* "Skip if prediction already exists"
already_predicted(st, g) ==
    st.predictions[g].predicted_winner # None

\* st holds the BracketGame rows and the Prediction rows of the bracket.
RECURSIVE predict_and_advance(_, _, _, _, _)
predict_and_advance(gs, st, g, strategy, draws) ==
    IF already_predicted(st, g) THEN st
    ELSE
    LET bracket_game == st.bracket_games[g]
        winner == strategy_winner(strategy, bracket_game, draws[g])
        created == [st EXCEPT !.predictions[g] = Prediction(winner)]
        next_game == gs[g].next_game
    IN  IF next_game = None THEN created
        ELSE
        LET next_bracket_game == st.bracket_games[next_game]
            winner_seed == IF winner = bracket_game.team1
                           THEN bracket_game.team1_seed
                           ELSE bracket_game.team2_seed
            saved ==
                IF next_bracket_game.team1 = None
                THEN [next_bracket_game EXCEPT !.team1 = winner,
                                               !.team1_seed = winner_seed]
                ELSE IF next_bracket_game.team2 = None
                THEN [next_bracket_game EXCEPT !.team2 = winner,
                                               !.team2_seed = winner_seed]
                ELSE next_bracket_game
            advanced == [created EXCEPT !.bracket_games[next_game] = saved]
        IN  IF saved.team1 # None /\ saved.team2 # None
            THEN predict_and_advance(gs, advanced, next_game, strategy, draws)
            ELSE advanced

\* The body of the loop for a game that has both teams, with the successor
\* left to the loop: the prediction is created and nothing is advanced.
predict_only(gs, st, g, strategy, draws) ==
    IF already_predicted(st, g) THEN st
    ELSE [st EXCEPT !.predictions[g] =
              Prediction(strategy_winner(strategy, st.bracket_games[g],
                                         draws[g]))]

\* "for game in games.order_by("round", "game_number")"
loop_body(gs, st, g, strategy, draws) ==
    predict_and_advance(gs, st, g, strategy, draws)

RECURSIVE generate_loop(_, _, _, _, _)
generate_loop(gs, st, todo, strategy, draws) ==
    IF todo = {} THEN st
    ELSE
    LET g == CHOOSE x \in todo : \A y \in todo : Before(gs, x, y)
        bracket_game == st.bracket_games[g]
        done ==
            IF bracket_game.team1 = None \/ bracket_game.team2 = None THEN st
            ELSE loop_body(gs, st, g, strategy, draws)
    IN  generate_loop(gs, done, todo \ {g}, strategy, draws)

generate_predictions(gs, bgs, preds, b, strategy, draws) ==
    generate_loop(gs, [bracket_games |-> bgs[b], predictions |-> preds[b]],
                  DOMAIN gs, strategy, draws)

\* _create_bracket for a new bracket: the Bracket row, one BracketGame row
\* per game copied from the Game, then the predictions; the view answers
\* with the strategy it was asked for.
generate_brackets_view(b, strategy) ==
    /\ b \notin brackets
    /\ strategy \in BracketStrategy
    /\ brackets' = brackets \cup {b}
    /\ LET snapshot ==
             [bracket_games EXCEPT ![b] =
                [g \in GameIds |->
                    BracketGame(games[g].team1, games[g].team2,
                                games[g].seed1, games[g].seed2)]]
           st == generate_predictions(games, snapshot, predictions, b,
                                      strategy, random)
       IN  /\ bracket_games' = [bracket_games EXCEPT ![b] = st.bracket_games]
           /\ predictions' = [predictions EXCEPT ![b] = st.predictions]
    /\ response' = <<"Successfully generated", strategy>>
    /\ UNCHANGED <<games>>

\* _generate_predictions run once more over a bracket that was generated.
generate_predictions_again(b, strategy) ==
    /\ b \in brackets
    /\ strategy \in BracketStrategy
    /\ LET st == generate_predictions(games, bracket_games, predictions, b,
                                      strategy, random)
       IN  /\ bracket_games' = [bracket_games EXCEPT ![b] = st.bracket_games]
           /\ predictions' = [predictions EXCEPT ![b] = st.predictions]
    /\ response' = <<"Generated again", strategy>>
    /\ UNCHANGED <<games, brackets>>

\* The fixture of tests/test_bracket_generation.py: four first-round games
\* (seeds 1 v 2, 3 v 4, 5 v 6, 7 v 8), two second-round games and one
\* third-round game, every later game starting with no team.
CompleteTree ==
    <<Game(ROUND_OF_64, 1, 5, 1, 1, 2, 2),
      Game(ROUND_OF_64, 2, 5, 3, 3, 4, 4),
      Game(ROUND_OF_64, 3, 6, 5, 5, 6, 6),
      Game(ROUND_OF_64, 4, 6, 7, 7, 8, 8),
      Game(ROUND_OF_32, 5, 7, None, 1, None, 2),
      Game(ROUND_OF_32, 6, 7, None, 3, None, 4),
      Game(SWEET_16, 7, None, None, 1, None, 2)>>

GenerationTournaments == {CompleteTree, PlayIn}

InitGenerate ==
    \E tournament \in GenerationTournaments :
        /\ games = tournament
        /\ bracket_games =
             [b \in Brackets |-> [g \in DOMAIN tournament |-> NoBracketGame]]
        /\ predictions =
             [b \in Brackets |-> [g \in DOMAIN tournament |-> NoPrediction]]
        /\ brackets = {}
        /\ response = <<>>
        /\ requests = 0
        /\ teams = {t \in 1..8 : \E g \in DOMAIN tournament :
                                    t \in {tournament[g].team1,
                                           tournament[g].team2}}
        /\ tournaments = {1}
        /\ pc = <<>>
        /\ random \in [DOMAIN tournament -> BOOLEAN]
        /\ current_teams = <<>>
        /\ rounds = <<>>

NextGenerate ==
    \/ \E b \in Brackets, strategy \in BracketStrategy :
            /\ requests < MaxRequests
            /\ requests' = requests + 1
            /\ generate_brackets_view(b, strategy)
            /\ UNCHANGED <<teams, tournaments, pc, random,
                   current_teams, rounds>>
    \/ \E b \in Brackets, strategy \in BracketStrategy :
            /\ requests < MaxRequests
            /\ requests' = requests + 1
            /\ generate_predictions_again(b, strategy)
            /\ UNCHANGED <<teams, tournaments, pc, random,
                   current_teams, rounds>>

SpecGenerate == InitGenerate /\ [][NextGenerate]_vars

(***************************************************************************)
(* management/commands/seed_tournament_2025.py: Command.handle.  A team is *)
(* a number: the team named for seed s of the k-th region of region_seeds  *)
(* is 16 * (k - 1) + s, the eight First Four teams are 65..72.  The        *)
(* command holds Game objects in memory (objects) next to the rows it has  *)
(* written (rows); an assignment to an object reaches its row with save(). *)
(***************************************************************************)
MaxMissing == 1

Region == <<"EAST", "WEST", "MIDWEST", "SOUTH", "FIRST_FOUR">>

first_four ==
    <<[team1 |-> 65, team2 |-> 66, region |-> "SOUTH", seed_num |-> 16],
      [team1 |-> 67, team2 |-> 68, region |-> "EAST", seed_num |-> 16],
      [team1 |-> 69, team2 |-> 70, region |-> "MIDWEST", seed_num |-> 11],
      [team1 |-> 71, team2 |-> 72, region |-> "SOUTH", seed_num |-> 11]>>

\* The regions in the order of the region_seeds dictionary.
region_seeds_items == <<"SOUTH", "EAST", "WEST", "MIDWEST">>

\* region_seeds[region][seed]: the team of that name.
region_seeds(region, seed) ==
    LET k == CHOOSE i \in 1..4 : region_seeds_items[i] = region
    IN  16 * (k - 1) + seed

\* '"/" in seeds[seed]': the entry names the two teams of a First Four game.
first_four_name(region, seed) ==
    <<region, seed>> \in {<<"SOUTH", 11>>, <<"SOUTH", 16>>, <<"EAST", 16>>,
                          <<"MIDWEST", 11>>}

matchups ==
    <<<<1, 16>>, <<8, 9>>, <<5, 12>>, <<4, 13>>,
      <<6, 11>>, <<3, 14>>, <<7, 10>>, <<2, 15>>>>

final_four_matchups == <<<<"SOUTH", "EAST">>, <<"WEST", "MIDWEST">>>>

\* Every team the seeding names.
NamedTeams ==
    {region_seeds(rs[1], rs[2]) :
        rs \in {x \in {"SOUTH", "EAST", "WEST", "MIDWEST"} \X (1..16) :
                    ~first_four_name(x[1], x[2])}}
    \cup (65..72)

\* Team.objects.filter(name=...).first()
team_filter_first(team) == IF team \in teams THEN team ELSE None

\* Game.objects.create(...): the row and the object the command keeps.
SeedGame(region, round, game_number, seed1, team1, seed2, team2) ==
    [region |-> region, round |-> round, game_number |-> game_number,
     next_game |-> None, team1 |-> team1, seed1 |-> seed1,
     team2 |-> team2, seed2 |-> seed2, winner |-> None]

game_create(st, row) ==
    [objects |-> Append(st.objects, row), rows |-> Append(st.rows, row)]

\* "g.next_game = game"
assign_next_game(st, g, next) ==
    [st EXCEPT !.objects[g].next_game = next]

\* "g.save()"
game_object_save(st, g) ==
    [st EXCEPT !.rows[g] = st.objects[g]]

\* "g.next_game = game" followed by "g.save()"
assign_next_game_and_save(st, g, next) ==
    game_object_save(assign_next_game(st, g, next), g)

\* first_four_games.get((region, seed)): the game number, None when absent.
first_four_games(region, seed) ==
    IF \E k \in 1..4 : first_four[k].region = region
                        /\ first_four[k].seed_num = seed
    THEN CHOOSE k \in 1..4 : first_four[k].region = region
                              /\ first_four[k].seed_num = seed
    ELSE None

\* The games of a round held in games_by_round with the region, in order.
region_games(st, round, region) ==
    LET in_region(g) == st.objects[g].round = round
                        /\ st.objects[g].region = region
    IN  SelectSeq([g \in 1..Len(st.objects) |-> g], in_region)

\* "raise ValueError(Could not find teams: ...)" for a First Four game.
first_four_missing ==
    \E k \in 1..4 : \/ team_filter_first(first_four[k].team1) = None
                    \/ team_filter_first(first_four[k].team2) = None

\* "raise ValueError(Could not find teams for ...)" for a Round of 64 game
\* that no First Four game plays into.
round_of_64_missing ==
    \E k \in 1..4, m \in 1..8 :
        LET region == region_seeds_items[k]
            seed1 == matchups[m][1]
            seed2 == matchups[m][2]
        IN  /\ first_four_games(region, seed1) = None
            /\ first_four_games(region, seed2) = None
            /\ ~first_four_name(region, seed1)
            /\ ~first_four_name(region, seed2)
            /\ \/ team_filter_first(region_seeds(region, seed1)) = None
               \/ team_filter_first(region_seeds(region, seed2)) = None

create_first_four ==
    [objects |->
        [k \in 1..4 |->
            SeedGame(first_four[k].region, FIRST_FOUR, k,
                     first_four[k].seed_num, first_four[k].team1,
                     first_four[k].seed_num, first_four[k].team2)],
     rows |->
        [k \in 1..4 |->
            SeedGame(first_four[k].region, FIRST_FOUR, k,
                     first_four[k].seed_num, first_four[k].team1,
                     first_four[k].seed_num, first_four[k].team2)]]

\* The body of the loop over regions and matchups: n counts the matchups
\* done, over the four regions of region_seeds.
round_of_64_game(st, n) ==
    LET region == region_seeds_items[(n \div 8) + 1]
        seed1 == matchups[(n % 8) + 1][1]
        seed2 == matchups[(n % 8) + 1][2]
        game_number == Len(st.objects) + 1
        played_into == first_four_games(region, seed1) # None
                       \/ first_four_games(region, seed2) # None
        ff_game == IF first_four_games(region, seed1) # None
                   THEN first_four_games(region, seed1)
                   ELSE first_four_games(region, seed2)
        other_seed == IF seed2 \in {11, 16} THEN seed1 ELSE seed2
        other_team == IF first_four_name(region, other_seed) THEN None
                      ELSE team_filter_first(region_seeds(region, other_seed))
        team1 == IF first_four_name(region, seed1) THEN None
                 ELSE team_filter_first(region_seeds(region, seed1))
        team2 == IF first_four_name(region, seed2) THEN None
                 ELSE team_filter_first(region_seeds(region, seed2))
        created ==
            IF played_into
            THEN assign_next_game_and_save(
                    game_create(st,
                        SeedGame(region, ROUND_OF_64, game_number, seed1,
                                 IF seed1 = other_seed THEN other_team
                                 ELSE None,
                                 seed2,
                                 IF seed2 = other_seed THEN other_team
                                 ELSE None)),
                    ff_game, game_number)
            ELSE game_create(st,
                    SeedGame(region, ROUND_OF_64, game_number, seed1, team1,
                             seed2, team2))
    IN  created

\* (The set binds the value reached so far: each game is created once.)
RECURSIVE create_round_of_64(_, _)
create_round_of_64(st, n) ==
    IF n = 32 THEN st
    ELSE CHOOSE r \in {create_round_of_64(round_of_64_game(v, n), n + 1) :
                            v \in {st}} : TRUE

\* "for i in range(0, len(region_games), 2)": a game of the round for each
\* pair of games of the round before; the two next_game assignments are
\* made on the objects and no save() follows.
region_round_game(st, feeders, i, region, round) ==
    LET game_number == Len(st.objects) + 1
        created == game_create(st, SeedGame(region, round, game_number,
                                            None, None, None, None))
        linked == assign_next_game(
                    assign_next_game(created, feeders[i], game_number),
                    feeders[i + 1], game_number)
    IN  linked

RECURSIVE create_region_round(_, _, _, _, _)
create_region_round(st, feeders, i, region, round) ==
    IF i > Len(feeders) THEN st
    ELSE CHOOSE r \in {create_region_round(
                            region_round_game(v, feeders, i, region, round),
                            feeders, i + 2, region, round) :
                            v \in {st}} : TRUE

\* "for region in Region" of the Round of 32, Sweet 16 and Elite 8 blocks.
RECURSIVE create_round(_, _, _)
create_round(st, k, round) ==
    IF k > Len(Region) THEN st
    ELSE CHOOSE r \in {create_round(
                            create_region_round(
                                v, region_games(v, round - 1, Region[k]),
                                1, Region[k], round),
                            k + 1, round) :
                            v \in {st}} : TRUE

final_four_game(st, k) ==
    LET region1_game ==
            region_games(st, ELITE_8, final_four_matchups[k][1])[1]
        region2_game ==
            region_games(st, ELITE_8, final_four_matchups[k][2])[1]
        game_number == Len(st.objects) + 1
        created == game_create(st, SeedGame("", FINAL_FOUR, game_number,
                                            None, None, None, None))
        linked == assign_next_game_and_save(
                    assign_next_game_and_save(created, region1_game,
                                              game_number),
                    region2_game, game_number)
    IN  linked

RECURSIVE create_final_four(_, _)
create_final_four(st, k) ==
    IF k > Len(final_four_matchups) THEN st
    ELSE CHOOSE r \in {create_final_four(final_four_game(v, k), k + 1) :
                            v \in {st}} : TRUE

championship_game(st) ==
    LET game_number == Len(st.objects) + 1
        created == game_create(st, SeedGame("", CHAMPIONSHIP, game_number,
                                            None, None, None, None))
        final_four_games == region_games(st, FINAL_FOUR, "")
    IN  assign_next_game_and_save(
            assign_next_game_and_save(created, final_four_games[1],
                                      game_number),
            final_four_games[2], game_number)

create_championship(st) ==
    CHOOSE r \in {championship_game(v) : v \in {st}} : TRUE

\* The Game rows the command has written when it ends without an error.
seeded_rows ==
    create_championship(
        create_final_four(
            create_round(
                create_round(
                    create_round(create_round_of_64(create_first_four, 0),
                                 1, ROUND_OF_32),
                    1, SWEET_16),
                1, ELITE_8),
            1)).rows

\* handle(): everything inside "with transaction.atomic()", so a ValueError
\* leaves no row of the run; on success the Tournament, the official
\* Bracket and the Game rows are there.
seed_tournament_2025 ==
    /\ games = <<>>
    /\ IF first_four_missing \/ round_of_64_missing
       THEN /\ response' = "ValueError"
            /\ UNCHANGED <<games, brackets, tournaments, bracket_games,
                           predictions>>
       ELSE /\ response' = "Successfully seeded 2025 tournament data"
            /\ games' = seeded_rows
            /\ tournaments' = tournaments \cup {2025}
            /\ brackets' = brackets \cup {1}
            /\ bracket_games' =
                 [b \in Brackets |-> [g \in DOMAIN games' |-> NoBracketGame]]
            /\ predictions' =
                 [b \in Brackets |-> [g \in DOMAIN games' |-> NoPrediction]]
    /\ UNCHANGED <<requests, teams, pc, random,
                   current_teams, rounds>>

\* The Team table holds the named teams but at most MaxMissing of them.
InitSeed ==
    /\ games = <<>>
    /\ bracket_games = [b \in Brackets |-> <<>>]
    /\ predictions = [b \in Brackets |-> <<>>]
    /\ brackets = {}
    /\ response = ""
    /\ requests = 0
    /\ \E missing \in [1..MaxMissing -> NamedTeams \cup {None}] :
            teams = NamedTeams \ {missing[i] : i \in 1..MaxMissing}
    /\ tournaments = {}
    /\ pc = <<>>
    /\ random = <<>>
    /\ current_teams = <<>>
    /\ rounds = <<>>

NextSeed == seed_tournament_2025

SpecSeed == InitSeed /\ [][NextSeed]_vars

(***************************************************************************)
(* Results entered with scores: GameAdmin.set_game_winner with the fields  *)
(* score1_<id> and score2_<id> of the POST, and the change form of a game  *)
(* with its score fields.  The Game rows carry score1 and score2 (None:    *)
(* null).                                                                  *)
(***************************************************************************)
MaxResults == 2

\* The score fields of a POST: absent or empty, a number, or other text.
ScoreFields == {"", "1", "2", "x"}

\* int(score): the number, or a ValueError (None here) for other text.
int(text) ==
    IF text = "1" THEN 1 ELSE IF text = "2" THEN 2 ELSE None

\* Game.clean
game_clean(obj) ==
    /\ obj.winner = None \/ obj.winner \in {obj.team1, obj.team2}
    /\ (obj.score1 = None) = (obj.score2 = None)
    /\ (obj.score1 # None /\ obj.score2 # None)
       => /\ obj.winner # None
          /\ obj.score1 > obj.score2 => obj.winner = obj.team1
          /\ obj.score2 > obj.score1 => obj.winner = obj.team2

set_game_winner_scores(g, winner, score1, score2) ==
    /\ IF score1 # "" /\ score2 # "" /\ (int(score1) = None
                                         \/ int(score2) = None)
       THEN /\ response' = "Invalid scores"
            /\ UNCHANGED <<games, predictions>>
       ELSE LET game == IF score1 # "" /\ score2 # ""
                        THEN [games[g] EXCEPT !.score1 = int(score1),
                                              !.score2 = int(score2)]
                        ELSE games[g]
                r == SetGameWinnerResult([games EXCEPT ![g] = game],
                                         predictions, g, winner)
            IN  /\ games' = r.games
                /\ predictions' = r.predictions
                /\ response' = "Set winner"
    /\ UNCHANGED <<bracket_games, brackets>>

\* The change form: the winner among the form's choices, the scores as
\* numbers or blank, and the object validated by Game.clean before
\* save_model runs.
save_model_scores(g, winner, score1, score2) ==
    /\ winner \in FormWinnerChoices(games[g])
    /\ LET obj == [games[g] EXCEPT !.winner = winner, !.score1 = score1,
                                   !.score2 = score2]
       IN  /\ game_clean(obj)
           /\ LET r == SaveModelResult(
                          [games EXCEPT ![g].score1 = score1,
                                        ![g].score2 = score2],
                          predictions, g, winner)
              IN  /\ games' = r.games
                  /\ predictions' = r.predictions
    /\ response' = "Game saved"
    /\ UNCHANGED <<bracket_games, brackets>>

InitScores ==
    /\ games = [g \in DOMAIN SiblingTree |->
                  [score1 |-> None, score2 |-> None] @@ SiblingTree[g]]
    /\ bracket_games =
         [b \in Brackets |-> [g \in DOMAIN SiblingTree |-> NoBracketGame]]
    /\ predictions =
         [b \in Brackets |-> [g \in DOMAIN SiblingTree |-> NoPrediction]]
    /\ brackets = {}
    /\ response = ""
    /\ requests = 0
    /\ teams = Teams
    /\ tournaments = {1}
    /\ pc = <<>>
    /\ random = <<>>
    /\ current_teams = <<>>
    /\ rounds = <<>>

\* One more result is entered, up to the bound of the model.
ServeResult ==
    /\ requests < MaxResults
    /\ requests' = requests + 1
    /\ UNCHANGED <<teams, tournaments, pc, random,
                   current_teams, rounds>>

NextScores ==
    \/ \E g \in GameIds, w \in Teams, score1 \in ScoreFields,
          score2 \in ScoreFields :
            ServeResult /\ set_game_winner_scores(g, w, score1, score2)
    \/ \E g \in GameIds, w \in Teams \cup {None}, score1 \in {None, 1, 2},
          score2 \in {None, 1, 2} :
            ServeResult /\ save_model_scores(g, w, score1, score2)

SpecScores == InitScores /\ [][NextScores]_vars

(***************************************************************************)
(* Two admin requests in flight.  GameAdmin.set_game_winner runs outside   *)
(* any transaction, so each query and each save() of the handler is a      *)
(* statement of its own, and the statements of two requests interleave.    *)
(* pc[p] is where request p stands (at), with the objects it holds in      *)
(* memory: the Game it loaded (game), the successor it loaded (next_game)  *)
(* and the brackets whose Prediction Game.save() has still to save (todo). *)
(* Each of the two requests is made once.                                  *)
(***************************************************************************)
Procs == {1, 2}

Idle ==
    [at |-> "idle", g |-> None, winner |-> None, game |-> <<>>,
     next_game |-> <<>>, todo |-> {}]

\* "game = Game.objects.get(id=game_id); winner = Team.objects.get(...)" and
\* "game.winner = winner" on the object.
set_game_winner_get(p, g, winner) ==
    /\ pc[p].at = "idle"
    /\ requests' = requests + 1
    /\ pc' = [pc EXCEPT ![p] =
                [at |-> "update_next_game", g |-> g, winner |-> winner,
                 game |-> [games[g] EXCEPT !.winner = winner],
                 next_game |-> <<>>, todo |-> {}]]
    /\ UNCHANGED <<games, bracket_games, predictions, brackets, response,
                   teams, tournaments, random,
                   current_teams, rounds>>

\* _update_next_game: "if not game.next_game: return", else the successor
\* is loaded.
update_next_game_load(p) ==
    /\ pc[p].at = "update_next_game"
    /\ pc' = [pc EXCEPT ![p] =
                IF pc[p].game.next_game = None
                THEN [pc[p] EXCEPT !.at = "game.save"]
                ELSE [pc[p] EXCEPT !.at = "next_game.save",
                                   !.next_game =
                                        games[pc[p].game.next_game]]]
    /\ UNCHANGED <<games, bracket_games, predictions, brackets, response,
                   requests, teams, tournaments, random,
                   current_teams, rounds>>

\* _update_next_game: the slot decided on the loaded successor, and
\* "next_game.save()" writing every field of the object.
update_next_game_save(p) ==
    /\ pc[p].at = "next_game.save"
    /\ LET n == pc[p].game.next_game
           loaded == [games EXCEPT ![pc[p].g] = pc[p].game,
                                   ![n] = pc[p].next_game]
       IN  games' = [games EXCEPT ![n] =
                        update_next_game(loaded, pc[p].g, pc[p].winner)[n]]
    /\ pc' = [pc EXCEPT ![p].at = "game.save"]
    /\ UNCHANGED <<bracket_games, predictions, brackets, response, requests,
                   teams, tournaments, random,
                   current_teams, rounds>>

\* Game.save: "old_game = Game.objects.get(pk=self.pk)", the comparison of
\* the winners, and "super().save()" writing every field of the object.
game_save_row(p) ==
    /\ pc[p].at = "game.save"
    /\ games' = [games EXCEPT ![pc[p].g] = pc[p].game]
    /\ pc' = [pc EXCEPT ![p].at = "predictions",
                        ![p].todo =
                            IF games[pc[p].g].winner # pc[p].winner
                            THEN {b \in Brackets :
                                    predictions[b][pc[p].g].predicted_winner
                                        # None}
                            ELSE {}]
    /\ UNCHANGED <<bracket_games, predictions, brackets, response, requests,
                   teams, tournaments, random,
                   current_teams, rounds>>

\* Game.save: "prediction.save()" of the next prediction of the loop.
game_save_prediction(p) ==
    /\ pc[p].at = "predictions"
    /\ pc[p].todo # {}
    /\ LET b == CHOOSE x \in pc[p].todo : \A y \in pc[p].todo : x <= y
           rescored == Rescore(predictions, pc[p].g, pc[p].game.round,
                               pc[p].winner)
       IN  /\ predictions' =
                [predictions EXCEPT ![b][pc[p].g] = rescored[b][pc[p].g]]
           /\ pc' = [pc EXCEPT ![p].todo = pc[p].todo \ {b}]
    /\ UNCHANGED <<games, bracket_games, brackets, response, requests,
                   teams, tournaments, random,
                   current_teams, rounds>>

\* _update_predictions over the predictions of the game, and the message.
set_game_winner_done(p) ==
    /\ pc[p].at = "predictions"
    /\ pc[p].todo = {}
    /\ predictions' =
         update_predictions([games EXCEPT ![pc[p].g] = pc[p].game],
                            predictions, pc[p].g)
    /\ response' = "Set winner"
    /\ pc' = [pc EXCEPT ![p] = [Idle EXCEPT !.at = "done"]]
    /\ UNCHANGED <<games, bracket_games, brackets, requests, teams,
                   tournaments, random,
                   current_teams, rounds>>

\* Brackets whose picks for the two first-round games were stored before
\* any result.
InitConcurrent ==
    /\ games = SiblingTree
    /\ bracket_games =
         [b \in Brackets |-> [g \in DOMAIN SiblingTree |-> NoBracketGame]]
    /\ \E picks \in [Brackets -> [{1, 2} -> Teams \cup {None}]] :
          /\ \A b \in Brackets, g \in {1, 2} :
                picks[b][g] \in {None, SiblingTree[g].team1,
                                 SiblingTree[g].team2}
          /\ predictions =
                [b \in Brackets |->
                    [g \in DOMAIN SiblingTree |->
                        IF g \in {1, 2} THEN Prediction(picks[b][g])
                        ELSE NoPrediction]]
    /\ brackets = Brackets
    /\ response = ""
    /\ requests = 0
    /\ teams = Teams
    /\ tournaments = {1}
    /\ pc = [p \in Procs |-> Idle]
    /\ random = <<>>
    /\ current_teams = <<>>
    /\ rounds = <<>>

NextConcurrent ==
    \/ \E p \in Procs, g \in GameIds, w \in Teams :
            set_game_winner_get(p, g, w)
    \/ \E p \in Procs : update_next_game_load(p)
    \/ \E p \in Procs : update_next_game_save(p)
    \/ \E p \in Procs : game_save_row(p)
    \/ \E p \in Procs : game_save_prediction(p)
    \/ \E p \in Procs : set_game_winner_done(p)

SpecConcurrent == InitConcurrent /\ [][NextConcurrent]_vars

(***************************************************************************)
(* admin.py: GameAdmin.set_game_winner, a POST that names several games.   *)
(* request.POST holds one winner_<id> field per game, so the submission is *)
(* a sequence of entries for distinct games, processed in the order of the *)
(* fields.  The response lists the games reported as errors and as         *)
(* successes, next to the request it answers.  One submission is made.     *)
(***************************************************************************)

\* The score fields submitted with a winner: none, two numbers, or text
\* that is not a number in either field.
SubmittedScores == {<<"", "">>, <<"2", "1">>, <<"x", "1">>, <<"1", "x">>}

SubmittedEntries ==
    [game : 1..3, winner : Teams, scores : SubmittedScores]

\* The POSTs of the model: one game, or two distinct games in either order.
Submissions ==
    {<<e>> : e \in SubmittedEntries}
    \cup {<<e[1], e[2]>> : e \in {p \in SubmittedEntries \X SubmittedEntries :
                                    p[1].game # p[2].game}}

\* A wrong score does not stop the winner from being stored.
set_game_winner_entry_ignoring_scores(st, entry) ==
    LET r == SetGameWinnerResult(st.games, st.predictions, entry.game,
                                 entry.winner)
    IN  [st EXCEPT !.games = r.games, !.predictions = r.predictions,
                   !.success_messages =
                        Append(@, <<entry.winner, entry.game>>)]

\* The body of the loop over request.POST.items() for one winner_<id>.
set_game_winner_entry(st, entry) ==
    LET score1 == entry.scores[1]
        score2 == entry.scores[2]
    IN  IF entry.winner = None THEN st
        ELSE IF score1 # "" /\ score2 # ""
                /\ (int(score1) = None \/ int(score2) = None)
        THEN [st EXCEPT !.error_messages = Append(@, entry.game)]
        ELSE LET game == IF score1 # "" /\ score2 # ""
                         THEN [st.games[entry.game] EXCEPT
                                    !.score1 = int(score1),
                                    !.score2 = int(score2)]
                         ELSE st.games[entry.game]
                 r == SetGameWinnerResult(
                        [st.games EXCEPT ![entry.game] = game],
                        st.predictions, entry.game, entry.winner)
             IN  [st EXCEPT !.games = r.games,
                            !.predictions = r.predictions,
                            !.success_messages =
                                Append(@, <<entry.winner, entry.game>>)]

RECURSIVE set_game_winner_loop(_, _, _)
set_game_winner_loop(st, post, i) ==
    IF i > Len(post) THEN st
    ELSE CHOOSE r \in {set_game_winner_loop(v, post, i + 1) :
                        v \in {set_game_winner_entry(st, post[i])}} : TRUE

set_game_winner_post(post) ==
    LET r == set_game_winner_loop(
                [games |-> games, predictions |-> predictions,
                 success_messages |-> <<>>, error_messages |-> <<>>],
                post, 1)
    IN  /\ games' = r.games
        /\ predictions' = r.predictions
        /\ response' = [request |-> post,
                        success_messages |-> r.success_messages,
                        error_messages |-> r.error_messages]
        /\ UNCHANGED <<bracket_games, brackets>>

\* The tournament as the admin finds it: every bracket has a pick for
\* game 1, and game 1 is either undecided or was decided 2-1 for team 1.
InitSubmit ==
    \E pick \in [Brackets -> {1, 2}], decided \in BOOLEAN :
        LET rows == [g \in DOMAIN SiblingTree |->
                        [score1 |-> None, score2 |-> None] @@ SiblingTree[g]]
            preds == [b \in Brackets |-> [g \in DOMAIN SiblingTree |->
                        IF g = 1 THEN Prediction(pick[b])
                        ELSE NoPrediction]]
            start == [games |-> rows, predictions |-> preds,
                      success_messages |-> <<>>, error_messages |-> <<>>]
            st == IF decided
                  THEN set_game_winner_entry(
                          start, [game |-> 1, winner |-> 1,
                                  scores |-> <<"2", "1">>])
                  ELSE start
        IN  /\ games = st.games
            /\ predictions = st.predictions
            /\ bracket_games =
                 [b \in Brackets |-> [g \in DOMAIN SiblingTree |->
                    BracketGame(SiblingTree[g].team1, SiblingTree[g].team2,
                                SiblingTree[g].seed1, SiblingTree[g].seed2)]]
            /\ brackets = Brackets
            /\ response = [request |-> <<>>, success_messages |-> <<>>,
                           error_messages |-> <<>>]
            /\ requests = 0
            /\ teams = Teams
            /\ tournaments = {1}
            /\ pc = <<>>
            /\ random = <<>>
            /\ current_teams = <<>>
            /\ rounds = <<>>

NextSubmit ==
    \E post \in Submissions :
        /\ requests = 0
        /\ requests' = requests + 1
        /\ set_game_winner_post(post)
        /\ UNCHANGED <<teams, tournaments, pc, random,
                   current_teams, rounds>>

SpecSubmit == InitSubmit /\ [][NextSubmit]_vars

(***************************************************************************)
(* Generation while the tournament is being played: the admin enters       *)
(* results with set_game_winner, which fill the canonical slots of the     *)
(* later games, and brackets are generated from the games as they then     *)
(* stand.                                                                  *)
(***************************************************************************)
InitInProgress ==
    /\ games = SiblingTree
    /\ bracket_games =
         [b \in Brackets |-> [g \in DOMAIN SiblingTree |-> NoBracketGame]]
    /\ predictions =
         [b \in Brackets |-> [g \in DOMAIN SiblingTree |-> NoPrediction]]
    /\ brackets = {}
    /\ response = <<>>
    /\ requests = 0
    /\ teams = Teams
    /\ tournaments = {1}
    /\ pc = <<>>
    /\ random \in [DOMAIN SiblingTree -> BOOLEAN]
    /\ current_teams = <<>>
    /\ rounds = <<>>

NextInProgress ==
    \/ \E g \in GameIds, w \in Teams :
            /\ ServeResult
            /\ set_game_winner(g, w)
    \/ \E b \in Brackets, strategy \in BracketStrategy :
            /\ generate_brackets_view(b, strategy)
            /\ UNCHANGED <<requests, teams, tournaments, pc, random,
                   current_teams, rounds>>

SpecInProgress == InitInProgress /\ [][NextInProgress]_vars

(***************************************************************************)
(* Two users' brackets over one tournament: the requests of Next, made for *)
(* either of two brackets.                                                 *)
(***************************************************************************)
TwoBrackets == {1, 2}

InitTwoBrackets ==
    /\ games = SiblingTree
    /\ bracket_games =
         [b \in TwoBrackets |-> [g \in DOMAIN SiblingTree |-> NoBracketGame]]
    /\ predictions =
         [b \in TwoBrackets |-> [g \in DOMAIN SiblingTree |-> NoPrediction]]
    /\ brackets = {}
    /\ response = ""
    /\ requests = 0
    /\ teams = Teams
    /\ tournaments = {1}
    /\ pc = <<>>
    /\ random = <<>>
    /\ current_teams = <<>>
    /\ rounds = <<>>

NextTwoBrackets ==
    \/ \E g \in GameIds, w \in Teams : Serve /\ set_game_winner(g, w)
    \/ \E g \in GameIds, w \in Teams \cup {None} : Serve /\ save_model(g, w)
    \/ \E b \in TwoBrackets : Serve /\ create_bracket(b)
    \/ \E b \in TwoBrackets, g \in GameIds, w \in Teams :
            Serve /\ create_prediction(b, g, w)
    \/ \E b \in TwoBrackets, pg \in GameIds, g \in GameIds, w \in Teams :
            Serve /\ update_prediction(b, pg, g, w)
    \/ \E b \in TwoBrackets, g \in GameIds, w \in Teams :
            Serve /\ fill_bracket(b, g, w)

SpecTwoBrackets == InitTwoBrackets /\ [][NextTwoBrackets]_vars

(***************************************************************************)
(* cli.py: simulate_tournament.  teams is the list read from the CSV file, *)
(* pairs of a team and its seed; current_teams is the list still in the    *)
(* tournament and rounds the results recorded so far.  pc is "loop" while  *)
(* the while loop runs, and response is the dictionary returned.  One      *)
(* action is one pass of the while loop; the winner of a matchup is what   *)
(* predict_matchup gives for the HISTORICAL_ANALYSIS strategy, one of the  *)
(* two teams, here a draw.  The upsets list and the confidence are written *)
(* and never read by the loop.                                             *)
(***************************************************************************)
MaxTeams == 5

\* predict_matchup(...)["winner"]: the name of one of the two teams.
predict_matchup(team1, team2, seed1, seed2, draw) ==
    IF draw THEN team1 ELSE team2

\* A last team without an opponent is left out of the next round.
matchup_without_bye(current, i, draw) ==
    IF i + 1 > Len(current)
    THEN [next_round_teams |-> <<>>, round_results |-> <<>>]
    ELSE LET winner == predict_matchup(current[i][1], current[i + 1][1],
                                       current[i][2], current[i + 1][2], draw)
         IN  [next_round_teams |->
                <<<<winner, IF winner = current[i][1] THEN current[i][2]
                            ELSE current[i + 1][2]>>>>,
              round_results |->
                <<[team1 |-> current[i][1], seed1 |-> current[i][2],
                   team2 |-> current[i + 1][1], seed2 |-> current[i + 1][2],
                   winner |-> winner]>>]

\* The body of "for i in range(0, len(current_teams), 2)" for the matchup
\* that starts at position i (counted from 1): what it appends to
\* next_round_teams and to round_results.
matchup(current, i, draw) ==
    IF i + 1 > Len(current)
    THEN [next_round_teams |-> <<current[i]>>,
          round_results |->
            <<[team1 |-> current[i][1], seed1 |-> current[i][2],
               team2 |-> "BYE", seed2 |-> 16, winner |-> current[i][1]]>>]
    ELSE LET team1 == current[i][1]
             seed1 == current[i][2]
             team2 == current[i + 1][1]
             seed2 == current[i + 1][2]
             winner == predict_matchup(team1, team2, seed1, seed2, draw)
         IN  [next_round_teams |->
                <<<<winner, IF winner = team1 THEN seed1 ELSE seed2>>>>,
              round_results |->
                <<[team1 |-> team1, seed1 |-> seed1, team2 |-> team2,
                   seed2 |-> seed2, winner |-> winner]>>]

RECURSIVE matchups_from(_, _, _, _)
matchups_from(current, i, draws, acc) ==
    IF i > Len(current) THEN acc
    ELSE LET m == matchup(current, i, draws[i])
         IN  CHOOSE r \in
                {matchups_from(current, i + 2, draws, v) :
                    v \in {[next_round_teams |->
                              acc.next_round_teams \o m.next_round_teams,
                            round_results |->
                              acc.round_results \o m.round_results]}} : TRUE

\* One pass of "while len(current_teams) > 1".
simulate_round(draws) ==
    /\ pc = "loop"
    /\ Len(current_teams) > 1
    /\ LET r == matchups_from(current_teams, 1, draws,
                    [next_round_teams |-> <<>>, round_results |-> <<>>])
       IN  /\ rounds' = Append(rounds, r.round_results)
           /\ current_teams' = r.next_round_teams
    /\ UNCHANGED <<pc, response, teams>>

\* The loop is left and the results are returned.
simulate_return ==
    /\ pc = "loop"
    /\ ~(Len(current_teams) > 1)
    /\ response' = [rounds |-> rounds,
                    champion |-> IF current_teams # <<>>
                                 THEN current_teams[1][1] ELSE None]
    /\ pc' = "returned"
    /\ UNCHANGED <<current_teams, rounds, teams>>

\* simulate_tournament is called with a list of up to MaxTeams teams, the
\* teams 1, 2, ... with a seed each.
InitSimulate ==
    /\ \E n \in 0..MaxTeams, seed \in [1..MaxTeams -> {1, 2}] :
            teams = [i \in 1..n |-> <<i, seed[i]>>]
    /\ current_teams = teams
    /\ rounds = <<>>
    /\ pc = "loop"
    /\ response = <<>>
    /\ games = <<>>
    /\ bracket_games = <<>>
    /\ predictions = <<>>
    /\ brackets = {}
    /\ requests = 0
    /\ tournaments = {}
    /\ random = <<>>

NextSimulate ==
    \/ \E draws \in [1..MaxTeams -> BOOLEAN] :
            /\ simulate_round(draws)
            /\ UNCHANGED <<games, bracket_games, predictions, brackets,
                           requests, tournaments, random>>
    \/ /\ simulate_return
       /\ UNCHANGED <<games, bracket_games, predictions, brackets,
                      requests, tournaments, random>>

SpecSimulate == InitSimulate /\ [][NextSimulate]_vars

\* The interpreter keeps running the call until it returns.
SpecSimulateFair == SpecSimulate /\ WF_vars(NextSimulate)

(***************************************************************************)
(* Properties                                                              *)
(***************************************************************************)
PredictionRows == {bg \in Brackets \X GameIds :
                        predictions[bg[1]][bg[2]].predicted_winner # None}

\* C1: whenever a game's winner changes to a team, every prediction already
\* recorded for that game is re-evaluated: is_correct says whether the
\* predicted winner is the new winner, and points_earned is the round's
\* points when it is and 0 when it is not.
RescoredOnResult ==
    [][\A g \in GameIds :
        (games'[g].winner # games[g].winner /\ games'[g].winner # None)
        => \A b \in Brackets :
              predictions[b][g].predicted_winner # None
              => LET p == predictions'[b][g]
                 IN  /\ p.predicted_winner = predictions[b][g].predicted_winner
                     /\ p.is_correct = (p.predicted_winner = games'[g].winner)
                     /\ p.points_earned =
                            IF p.is_correct THEN get_points(games[g].round)
                            ELSE 0]_vars

\* C1 witness: a prediction for team 1 of game 1, made in a bracket created
\* before any result, whose result was entered as team 2 (now in slot 1 of
\* the successor) and then corrected to team 1 (now in slot 2): the
\* prediction is correct and holds the round's points.
RescoredOnResultWitness ==
    /\ games = [SiblingTree EXCEPT ![1].winner = 1,
                                   ![3].team1 = 2, ![3].seed1 = 16,
                                   ![3].team2 = 1, ![3].seed2 = 1]
    /\ bracket_games[1][3] = BracketGame(1, None, 1, None)
    /\ predictions[1][1] =
         [predicted_winner |-> 1, is_correct |-> TRUE, points_earned |-> 1]

\* C2: a create_prediction or update_prediction request whose winner is not
\* one of the two teams of the bracket's BracketGame for the submitted game
\* changes no Prediction, no BracketGame and no Game.  (The two views answer
\* with one of three messages; other steps are not theirs.)
InvalidWinnerRejected ==
    [][response' \in {"Invalid winner selection", "Prediction updated",
                      "Prediction created successfully"}
       => \A b \in brackets, g \in GameIds, w \in Teams :
            /\ w \notin {bracket_games[b][g].team1, bracket_games[b][g].team2}
            /\ \/ create_prediction(b, g, w)
               \/ \E pg \in GameIds : update_prediction(b, pg, g, w)
            => UNCHANGED <<predictions, bracket_games, games>>]_vars

\* C2 witness: a request was answered "Invalid winner selection" in a
\* bracket that holds a prediction.
InvalidWinnerRejectedWitness ==
    /\ response = "Invalid winner selection"
    /\ PredictionRows # {}

\* C3: for two games g, h feeding the same next game with g numbered lower,
\* an accepted prediction of g's winner writes the winner and its seed into
\* slot 1 of the bracket's overlay of the next game and leaves slot 2 alone;
\* an accepted prediction of h's winner writes slot 2 and leaves slot 1.
Siblings(g, h) ==
    /\ g # h
    /\ games[g].next_game # None
    /\ games[g].next_game = games[h].next_game
    /\ games[g].game_number < games[h].game_number

OverlaySeed(b, g, w) ==
    IF w = bracket_games[b][g].team1 THEN bracket_games[b][g].team1_seed
    ELSE bracket_games[b][g].team2_seed

Accepted(b, g, w) ==
    \/ /\ response' = "Prediction created successfully"
       /\ create_prediction(b, g, w)
    \/ /\ response' = "Prediction updated"
       /\ \E pg \in GameIds : update_prediction(b, pg, g, w)

OverlayTeams(b, g) ==
    {bracket_games[b][g].team1, bracket_games[b][g].team2} \ {None}

OverlaySlotDeterministic ==
    [][\A g \in GameIds, h \in GameIds :
        Siblings(g, h) =>
          \A b \in brackets :
            LET n == games[g].next_game
                old == bracket_games[b][n]
                new == bracket_games'[b][n]
            IN  /\ \A w \in OverlayTeams(b, g) :
                      Accepted(b, g, w) =>
                        /\ new.team1 = w
                        /\ new.team1_seed = OverlaySeed(b, g, w)
                        /\ new.team2 = old.team2
                        /\ new.team2_seed = old.team2_seed
                /\ \A w \in OverlayTeams(b, h) :
                      Accepted(b, h, w) =>
                        /\ new.team2 = w
                        /\ new.team2_seed = OverlaySeed(b, h, w)
                        /\ new.team1 = old.team1
                        /\ new.team1_seed = old.team1_seed]_vars

\* C3 witness: slot 2 of the successor's overlay holds the pick of the
\* higher-numbered game and slot 1 the changed pick of the lower-numbered
\* game, after the four requests create_bracket, pick of game 2, pick of
\* game 1, change of the pick of game 1.
OverlaySlotDeterministicWitness ==
    /\ requests = 4
    /\ response = "Prediction updated"
    /\ predictions[1][1].predicted_winner = 2
    /\ predictions[1][2].predicted_winner = 3
    /\ bracket_games[1][3] = BracketGame(2, 3, 16, 8)

\* C4: for two games g, h feeding the same next game with g numbered lower,
\* recording or correcting the actual winner of g writes it into team1 of
\* the next game and recording or correcting the winner of h writes it into
\* team2, in whichever order the results are entered.
ResultEntered(g, w) ==
    \/ set_game_winner(g, w)
    \/ w # games[g].winner /\ save_model(g, w)

CanonicalSlotByGameNumber ==
    [][\A g \in GameIds, h \in GameIds, w \in Teams :
        Siblings(g, h) =>
          LET n == games[g].next_game
          IN  /\ (w \in {games[g].team1, games[g].team2} /\ ResultEntered(g, w))
                    => games'[n].team1 = w /\ games'[n].team2 = games[n].team2
              /\ (w \in {games[h].team1, games[h].team2} /\ ResultEntered(h, w))
                    => games'[n].team2 = w /\ games'[n].team1 = games[n].team1
      ]_vars

\* C5: resolving a game with the same winner a second time changes nothing:
\* the admin action applied to its own outcome leaves the games and the
\* predictions as they are, and so does the propagation of a prediction
\* into the bracket's overlay.
AdvanceIdempotent ==
    /\ \A g \in GameIds :
         \A w \in {games[g].team1, games[g].team2} \ {None} :
            LET once == SetGameWinnerResult(games, predictions, g, w)
            IN  SetGameWinnerResult(once.games, once.predictions, g, w) = once
    /\ \A b \in brackets, g \in GameIds :
         \A w \in {bracket_games[b][g].team1, bracket_games[b][g].team2} \ {None} :
            LET once == AdvanceOverlay(games, bracket_games, b, g, w)
            IN  AdvanceOverlay(games, once, b, g, w) = once

\* C6: every game whose winner is set has its winner in team1 or team2.
WinnerIsParticipant ==
    \A g \in GameIds :
        games[g].winner # None
        => games[g].winner \in {games[g].team1, games[g].team2}

\* C7: every prediction's predicted_winner is one of the two teams of its
\* game as the bracket knows it: the bracket's BracketGame when the row
\* exists, the canonical Game otherwise.
PredictedWinnerIsParticipant ==
    \A b \in Brackets, g \in GameIds :
        predictions[b][g].predicted_winner # None
        => IF bracket_games[b][g].exists
           THEN predictions[b][g].predicted_winner \in
                    {bracket_games[b][g].team1, bracket_games[b][g].team2}
           ELSE predictions[b][g].predicted_winner \in
                    {games[g].team1, games[g].team2}

\* C9: when the winner of a First Four game is set to the team a prediction
\* names, the prediction is correct and earns nothing: is_correct is TRUE,
\* points_earned is 0 and calculate_points is 0.
FirstFourScoresNothing ==
    [][\A g \in GameIds, b \in Brackets :
        /\ games[g].round = FIRST_FOUR
        /\ games'[g].winner # games[g].winner
        /\ predictions[b][g].predicted_winner # None
        /\ games'[g].winner = predictions[b][g].predicted_winner
        => /\ predictions'[b][g].is_correct
           /\ predictions'[b][g].points_earned = 0
           /\ calculate_points(games', g, predictions'[b][g]) = 0]_vars

\* C9 witness: the First Four game of the play-in tournament has the
\* predicted team as its winner and the prediction is marked correct.
FirstFourScoresNothingWitness ==
    /\ games[1].round = FIRST_FOUR
    /\ games[1].winner = 2
    /\ predictions[1][1] =
         [predicted_winner |-> 2, is_correct |-> TRUE, points_earned |-> 0]

\* C8: a bracket that predicted every one of the seven games, one per
\* round, before it was played, and whose every predicted winner is the
\* game's winner once the winners are stored in round order, has score 63.
AllPicksCorrect(b) ==
    \A g \in GameIds :
        /\ predictions[b][g].predicted_winner # None
        /\ games[g].winner # None
        /\ predictions[b][g].predicted_winner = games[g].winner

PerfectBracketScores63 ==
    \A b \in brackets :
        ({games[g].round : g \in GameIds} = Rounds /\ AllPicksCorrect(b))
        => score(b) = 63

\* C8 witness: the bracket's seven picks are all right and it scores 63.
PerfectBracketScores63Witness ==
    /\ {games[g].round : g \in GameIds} = Rounds
    /\ AllPicksCorrect(1)
    /\ score(1) = 63

\* C10: the points of a round are the fixed lookup 0, 1, 2, 4, 8, 16, 32 for
\* FIRST_FOUR .. CHAMPIONSHIP: every prediction marked correct holds exactly
\* that value for its game's round, get_points never decreases from a round
\* to a later one, and FIRST_FOUR is worth 0.
PointsLookup ==
    /\ \A b \in Brackets, g \in GameIds :
          predictions[b][g].is_correct
          => predictions[b][g].points_earned =
                <<0, 1, 2, 4, 8, 16, 32>>[games[g].round + 1]
    /\ \A g \in GameIds :
          get_points(games[g].round) =
                <<0, 1, 2, 4, 8, 16, 32>>[games[g].round + 1]
    /\ \A r1 \in Rounds, r2 \in Rounds :
          r1 < r2 => get_points(r1) <= get_points(r2)
    /\ get_points(FIRST_FOUR) = 0

\* C10 witness: the lookup has been applied to the first and to the last
\* round: correct predictions of the First Four game and of the
\* championship hold 0 and 32 points.
PointsLookupWitness ==
    /\ \E g \in GameIds :
          /\ games[g].round = FIRST_FOUR
          /\ predictions[1][g].is_correct
          /\ predictions[1][g].points_earned = 0
    /\ \E g \in GameIds :
          /\ games[g].round = CHAMPIONSHIP
          /\ predictions[1][g].is_correct
          /\ predictions[1][g].points_earned = 32

\* C11: with a bracket's predictions held fixed, max_possible_score never
\* increases when games that had no winner get one, and it equals score
\* once every game the bracket has predicted has a winner.
MaxPossibleScoreShrinks ==
    /\ [](\A b \in Brackets :
            (\A g \in GameIds : predictions[b][g].predicted_winner # None
                                    => games[g].winner # None)
            => max_possible_score(b) = score(b))
    /\ [][(/\ \E g \in GameIds :
                  games[g].winner = None /\ games'[g].winner # None
            /\ \A h \in GameIds :
                  games'[h].winner # games[h].winner => games[h].winner = None)
           => \A b \in Brackets :
                 (\A g \in GameIds : predictions'[b][g].predicted_winner
                                        = predictions[b][g].predicted_winner)
                 => max_possible_score(b)' <= max_possible_score(b)]_vars

\* C11 witness: the bracket picked team 1 in game 1 and team 3 in game 2,
\* and the result of game 1 was then entered as team 2: of the 2 points the
\* picks could earn, only the point of the unplayed game 2 is still possible.
MaxPossibleScoreShrinksWitness ==
    /\ 1 \in brackets
    /\ predictions[1][1].predicted_winner = 1
    /\ predictions[1][2].predicted_winner = 3
    /\ games[1].round = ROUND_OF_64
    /\ games[1].winner = 2
    /\ games[2].winner = None
    /\ response = "Set winner"
    /\ score(1) = 0
    /\ max_possible_score(1) = 1

\* The games form a complete bracket tree: every game of the first round
\* has both participants, every later game starts with empty slots and is
\* the next_game of exactly two games of the round before, and every game
\* but those of the last round has a next_game.
CompleteBracketTree(gs) ==
    LET first == CHOOSE r \in Rounds :
                    /\ \E g \in DOMAIN gs : gs[g].round = r
                    /\ \A g \in DOMAIN gs : gs[g].round >= r
        last == CHOOSE r \in Rounds :
                    /\ \E g \in DOMAIN gs : gs[g].round = r
                    /\ \A g \in DOMAIN gs : gs[g].round <= r
    IN  \A g \in DOMAIN gs :
            /\ gs[g].round = first
               => gs[g].team1 # None /\ gs[g].team2 # None
            /\ gs[g].round # first
               => /\ gs[g].team1 = None /\ gs[g].team2 = None
                  /\ Cardinality({h \in DOMAIN gs :
                                    /\ gs[h].next_game = g
                                    /\ gs[h].round = gs[g].round - 1}) = 2
            /\ gs[g].round # last => gs[g].next_game # None

\* C12: over a complete bracket tree, one run of the generation leaves
\* exactly one Prediction for every game of the bracket, its winner one of
\* the two teams of the game's overlay.
GeneratedInOnePass ==
    [][\A b \in Brackets :
        (b \notin brackets /\ b \in brackets' /\ CompleteBracketTree(games))
        => \A g \in GameIds :
              /\ predictions'[b][g].predicted_winner # None
              /\ predictions'[b][g].predicted_winner
                    \in {bracket_games'[b][g].team1,
                         bracket_games'[b][g].team2}]_vars

\* C12 witness: one RANDOM generation over the seven-game tree in which
\* the second team was drawn in every game: team 8 is predicted to win the
\* last game, whose overlay was filled by the two second-round predictions.
GeneratedInOnePassWitness ==
    /\ games = CompleteTree
    /\ requests = 1
    /\ response = <<"Successfully generated", "RANDOM">>
    /\ bracket_games[1][7] = BracketGame(4, 8, 4, 8)
    /\ \A g \in GameIds : predictions[1][g].predicted_winner # None
    /\ predictions[1][7].predicted_winner = 8

\* C13: a further run of the HIGHER_SEED generation over a bracket that was
\* generated creates no Prediction, changes no predicted winner and leaves
\* the BracketGame overlay as it was.
GenerationIdempotent ==
    [][response' = <<"Generated again", "HIGHER_SEED">>
       => /\ predictions' = predictions
          /\ bracket_games' = bracket_games]_vars

\* C13 witness: with draws that make RANDOM and HIGHER_SEED_WITH_UPSETS pick
\* team 8, the bracket over the seven-game tree holds the HIGHER_SEED picks
\* (team 1 beats team 5 in the last game) after the generation has been run
\* a second time with HIGHER_SEED.
GenerationIdempotentWitness ==
    /\ games = CompleteTree
    /\ \A g \in GameIds : ~random[g]
    /\ requests = 2
    /\ response = <<"Generated again", "HIGHER_SEED">>
    /\ bracket_games[1][7] = BracketGame(1, 5, 1, 5)
    /\ \A g \in GameIds : predictions[1][g].predicted_winner # None
    /\ predictions[1][7].predicted_winner = 1

\* The bracket b was generated by this step with HIGHER_SEED.
GeneratedHigherSeed(b) ==
    /\ b \notin brackets
    /\ b \in brackets'
    /\ response' = <<"Successfully generated", "HIGHER_SEED">>

\* C14 as stated: under HIGHER_SEED the predicted winner of a game is the
\* overlay team with the numerically lower seed, and team1 when the two
\* seeds are equal.
HigherSeedTieTeam1 ==
    [][\A b \in Brackets : GeneratedHigherSeed(b)
        => \A g \in GameIds :
              LET bracket_game == bracket_games'[b][g]
                  p == predictions'[b][g]
              IN  p.predicted_winner # None
                  => p.predicted_winner =
                        IF bracket_game.team1_seed < bracket_game.team2_seed
                        THEN bracket_game.team1
                        ELSE IF bracket_game.team2_seed
                                    < bracket_game.team1_seed
                        THEN bracket_game.team2
                        ELSE bracket_game.team1]_vars

\* C14 amended: under HIGHER_SEED the predicted winner of a game is the
\* overlay team with the numerically lower seed, and team2 when the two
\* seeds are equal; no error is raised.
HigherSeedTieTeam2 ==
    [][\A b \in Brackets : GeneratedHigherSeed(b)
        => \A g \in GameIds :
              LET bracket_game == bracket_games'[b][g]
                  p == predictions'[b][g]
              IN  p.predicted_winner # None
                  => p.predicted_winner =
                        IF bracket_game.team1_seed < bracket_game.team2_seed
                        THEN bracket_game.team1
                        ELSE IF bracket_game.team2_seed
                                    < bracket_game.team1_seed
                        THEN bracket_game.team2
                        ELSE bracket_game.team2]_vars

\* C14 witness: HIGHER_SEED over the play-in tournament: in the First Four
\* game both teams carry seed 16 and team2 (team 2) is predicted; it meets
\* the 1 seed in the next game, where the lower seed is predicted.
HigherSeedTieTeam2Witness ==
    /\ games = PlayIn
    /\ requests = 1
    /\ response = <<"Successfully generated", "HIGHER_SEED">>
    /\ bracket_games[1][1] = BracketGame(1, 2, 16, 16)
    /\ predictions[1][1].predicted_winner = 2
    /\ bracket_games[1][2] = BracketGame(3, 2, 1, 16)
    /\ predictions[1][2].predicted_winner = 3

\* C15: a generation asked for with a strategy that needs external data
\* (HISTORICAL_ANALYSIS, STATISTICAL_MATCHUP, COMPOSITE_AI), none being
\* supplied, does not answer with success and creates no Prediction.
ExternalStrategyFails ==
    [][\A strategy \in BracketStrategy :
        requires_api_data(strategy)
        => /\ response' # <<"Successfully generated", strategy>>
           /\ (response' = <<"Generated again", strategy>>
               => predictions' = predictions)]_vars

\* C16: once seed_tournament_2025 has succeeded, the stored next_game
\* pointers form the bracket tree: every game but the championship points
\* to a game of the next round, every game from the Round of 32 on is the
\* next_game of exactly two games of the round before it, and the
\* championship points nowhere.
NextGameTree ==
    response = "Successfully seeded 2025 tournament data"
    => \A g \in GameIds :
          /\ games[g].round # CHAMPIONSHIP
             => /\ games[g].next_game # None
                /\ games[games[g].next_game].round = games[g].round + 1
          /\ games[g].round >= ROUND_OF_32
             => Cardinality({h \in GameIds :
                                /\ games[h].next_game = g
                                /\ games[h].round = games[g].round - 1}) = 2
          /\ games[g].round = CHAMPIONSHIP => games[g].next_game = None

\* C17: whenever a team named in the seeding has no Team row, the run of
\* seed_tournament_2025 ends in an error and no Tournament, Bracket or Game
\* of the run is stored.
MissingTeamFails ==
    [][(\E team \in NamedTeams : team \notin teams)
       => /\ response' = "ValueError"
          /\ games' = games
          /\ brackets' = brackets
          /\ tournaments' = tournaments]_vars

\* C18: every stored Game is score-consistent: its two scores are both set
\* or both null, and when they are set the winner is set, is team1 if
\* score1 is the higher and team2 if score2 is the higher.
ScoreConsistency ==
    \A g \in GameIds :
        /\ (games[g].score1 = None) = (games[g].score2 = None)
        /\ (games[g].score1 # None /\ games[g].score2 # None)
           => /\ games[g].winner # None
              /\ games[g].score1 > games[g].score2
                 => games[g].winner = games[g].team1
              /\ games[g].score2 > games[g].score1
                 => games[g].winner = games[g].team2

\* C19: no state can be read in which a game stores a winner while one of
\* its predictions stores an is_correct or points_earned that was not
\* computed against that winner.
NoStaleScoreObservable ==
    \A g \in GameIds, b \in Brackets :
        (games[g].winner # None /\ predictions[b][g].predicted_winner # None)
        => /\ predictions[b][g].is_correct
                = (predictions[b][g].predicted_winner = games[g].winner)
           /\ predictions[b][g].points_earned
                = IF predictions[b][g].predicted_winner = games[g].winner
                  THEN get_points(games[g].round) ELSE 0

\* C20: once the two requests, one for each of the two sibling games 1 and
\* 2, have both completed, their successor holds both winners, one per slot.
BothWinnersKept ==
    (/\ \A p \in Procs : pc[p].at = "done"
     /\ games[1].winner \in {games[1].team1, games[1].team2}
     /\ games[2].winner \in {games[2].team1, games[2].team2})
    => \/ games[3].team1 = games[1].winner /\ games[3].team2 = games[2].winner
       \/ games[3].team1 = games[2].winner /\ games[3].team2 = games[1].winner

\* C21: recording or changing a prediction through create_prediction,
\* update_prediction or fill_bracket leaves every canonical Game as it was.
PicksLeaveCanonical ==
    [][response' \in {"Prediction created successfully", "Prediction updated",
                      "Invalid winner selection", "Bracket filled"}
       => games' = games]_vars

\* The number of slots (team with its seed) in which two rows differ.
SlotsChanged(old, new) ==
    (IF old.team1 # new.team1 THEN 1 ELSE 0)
    + (IF old.team2 # new.team2 THEN 1 ELSE 0)

\* The games that are the next_game of some game.
Successors == {games[g].next_game : g \in GameIds} \ {None}

\* C22: an actual result entered by the admin, or a prediction recorded by
\* create_prediction or update_prediction, changes at most one slot, and
\* that in a game that is some game's successor: no second slot and no
\* other game changes, the game whose slot changed gets no winner and no
\* new Prediction, and at most one game's winner and one Prediction's pick
\* change.
PropagatesOneLevel ==
    [][response' \in {"Set winner", "Game saved",
                      "Prediction created successfully", "Prediction updated"}
       => LET canonical == {h \in GameIds :
                                SlotsChanged(games[h], games'[h]) > 0}
              overlay == {bh \in Brackets \X GameIds :
                            SlotsChanged(bracket_games[bh[1]][bh[2]],
                                         bracket_games'[bh[1]][bh[2]]) > 0}
          IN  /\ Cardinality(canonical) + Cardinality(overlay) <= 1
              /\ \A h \in canonical :
                    /\ SlotsChanged(games[h], games'[h]) = 1
                    /\ h \in Successors
                    /\ games'[h].winner = games[h].winner
              /\ \A bh \in overlay :
                    /\ SlotsChanged(bracket_games[bh[1]][bh[2]],
                                    bracket_games'[bh[1]][bh[2]]) = 1
                    /\ bh[2] \in Successors
                    /\ predictions[bh[1]][bh[2]].predicted_winner = None
                       => predictions'[bh[1]][bh[2]].predicted_winner = None
              /\ Cardinality({h \in GameIds :
                                games'[h].winner # games[h].winner}) <= 1
              /\ Cardinality({bh \in Brackets \X GameIds :
                                predictions'[bh[1]][bh[2]].predicted_winner
                                # predictions[bh[1]][bh[2]].predicted_winner})
                    <= 1]_vars

\* C22 witness: the results of games 1 and 2 were entered, so their
\* successor has both slots filled and no winner; the bracket's pick for
\* game 1 left team 1 in the overlay of game 3 and no Prediction there.
PropagatesOneLevelWitness ==
    /\ games = [SiblingTree EXCEPT ![1].winner = 1, ![2].winner = 3,
                                   ![3].team1 = 1, ![3].seed1 = 1,
                                   ![3].team2 = 3, ![3].seed2 = 8]
    /\ 1 \in brackets
    /\ predictions[1][1].predicted_winner = 1
    /\ predictions[1][3].predicted_winner = None
    /\ bracket_games[1][3].team1 = 1

\* A team of the source row together with the seed it has there.
SourceSlots(team1, seed1, team2, seed2) ==
    {<<team1, seed1>>, <<team2, seed2>>}

InvalidScores(entry) ==
    /\ entry.scores[1] # "" /\ entry.scores[2] # ""
    /\ int(entry.scores[1]) = None \/ int(entry.scores[2]) = None

SiblingPairs ==
    {p \in GameIds \X GameIds :
        /\ games[p[1]].next_game # None
        /\ games[p[1]].next_game = games[p[2]].next_game
        /\ games[p[1]].game_number < games[p[2]].game_number}

\* C25: when a bracket has been generated, for two sibling games the
\* predicted winner of the lower-numbered one is in slot 1 of the
\* successor's overlay and that of the higher-numbered one in slot 2, also
\* when the canonical slots held results before the generation.
GeneratedSiblingSlots ==
    [][\A b \in Brackets : (b \notin brackets /\ b \in brackets') =>
        \A p \in SiblingPairs :
            (/\ predictions'[b][p[1]].predicted_winner # None
             /\ predictions'[b][p[2]].predicted_winner # None)
            => LET n == games[p[1]].next_game
               IN  /\ bracket_games'[b][n].team1
                        = predictions'[b][p[1]].predicted_winner
                   /\ bracket_games'[b][n].team2
                        = predictions'[b][p[2]].predicted_winner]_vars

\* C26: when a bracket has been generated, the predicted winner of every
\* game that has a successor and a Prediction is in one of the two slots of
\* the successor's overlay in that bracket.
GeneratedBracketConsistent ==
    [][\A b \in Brackets : (b \notin brackets /\ b \in brackets') =>
        \A g \in GameIds :
            (/\ games[g].next_game # None
             /\ predictions'[b][g].predicted_winner # None)
            => predictions'[b][g].predicted_winner
                \in {bracket_games'[b][games[g].next_game].team1,
                     bracket_games'[b][games[g].next_game].team2}]_vars

\* C27: in every reachable state each Prediction's stored is_correct says
\* whether the game's winner is set and is the predicted winner, and its
\* stored points_earned is the round's points when it is correct and 0
\* otherwise.
StoredScoringDerived ==
    \A bg \in PredictionRows :
        LET prediction == predictions[bg[1]][bg[2]]
            game == games[bg[2]]
        IN  /\ prediction.is_correct
                = (game.winner # None
                   /\ prediction.predicted_winner = game.winner)
            /\ prediction.points_earned
                = IF prediction.is_correct THEN get_points(game.round) ELSE 0

\* C28: in every reachable state a bracket's score is at most its
\* max_possible_score, which is at most the sum of the round points of the
\* games the bracket has predictions for.
ScoreWithinMaximum ==
    \A b \in brackets :
        /\ score(b) <= max_possible_score(b)
        /\ max_possible_score(b)
            <= SumRoundPoints(games,
                    {g \in GameIds : predictions[b][g].predicted_winner # None})

\* The overlay a bracket receives when it is created from the games gs.
InitialOverlay(gs) ==
    [g \in DOMAIN gs |-> BracketGame(gs[g].team1, gs[g].team2,
                                     gs[g].seed1, gs[g].seed2)]

\* C29: a prediction recorded or changed in one bracket changes the
\* BracketGame rows and Predictions of no other bracket, and leaves the
\* initial overlay of a bracket created later as it was.
BracketsIndependent ==
    [][response' \in {"Prediction created successfully",
                      "Prediction updated", "Bracket filled"}
       => /\ Cardinality({b \in TwoBrackets :
                            \/ predictions'[b] # predictions[b]
                            \/ bracket_games'[b] # bracket_games[b]}) <= 1
          /\ (\E b \in TwoBrackets : b \notin brackets)
             => InitialOverlay(games') = InitialOverlay(games)]_vars

====
